---- MODULE Spec2Model ----
(***************************************************************************)
(* Model of src/project2/dining_philosophers.py: the DiningPhilosophers    *)
(* monitor (one mutex, one condition variable per philosopher), the        *)
(* Philosopher threads that cycle think -> pickup_forks -> eat ->          *)
(* return_forks, and a caller outside the philosopher threads that invokes *)
(* the monitor's two operations out of sequence.                           *)
(*                                                                         *)
(* Every statement executed under the mutex is one step of the thread that *)
(* holds it; the program counter of a thread names the source line it is   *)
(* about to execute.                                                       *)
(***************************************************************************)
EXTENDS Integers, Sequences, FiniteSets, TLC

VARIABLES
    created,           \* a DiningPhilosophers object exists (__init__ returned)
    num_philosophers,  \* self.num_philosophers
    state,             \* self.state: philosopher -> THINKING | HUNGRY | EATING
    forks,             \* self.forks: fork -> stored holder count
    mutex,             \* self.mutex: the set of threads holding it (empty = free)
    waiters,           \* self.condition[k]: the threads blocked in wait(), in order
    pc,                \* thread -> the statement it is at
    philosopher_num,   \* thread -> the argument of the call it is executing
    printed,           \* the last output of print_fork_status (<<>> before any)
    misuse,            \* number of out-of-sequence calls made so far
    available,         \* BankersAlgorithm.available: resource -> free instances
    max_need,          \* BankersAlgorithm.max_need: process -> resource -> maximum
    allocation,        \* BankersAlgorithm.allocation: process -> resource -> held
    need,              \* BankersAlgorithm.need: process -> resource -> remaining
    call               \* the last call on the BankersAlgorithm object and its result

\* The fields of the BankersAlgorithm object (src/project3), with the last call.
banker_vars == <<available, max_need, allocation, need, call>>

\* The DiningPhilosophers object and its threads (src/project2).
dining_vars == <<created, num_philosophers, state, forks, mutex, waiters, pc,
                 philosopher_num, printed, misuse>>

vars == <<created, num_philosophers, state, forks, mutex, waiters, pc,
          philosopher_num, printed, misuse, banker_vars>>

\* Largest ring the constructor is given (main() uses 5).
MaxPhilosophers == 5

\* Number of out-of-sequence calls the outside caller makes.
MaxMisuse == 1

\* The thread that is not a Philosopher (a caller of the monitor's methods).
Caller == -1

Philosophers == 0 .. (num_philosophers - 1)

Threads == Philosophers \cup {Caller}

\* left_fork returning the philosopher on the left instead of the fork index.
left_fork_neighbour(p) == (p + num_philosophers - 1) % num_philosophers

left_fork(p) == p

right_fork(p) == (p + 1) % num_philosophers

\* The ring neighbours of philosopher p (the two that share a fork with p).
LeftNeighbour(p) == (p + num_philosophers - 1) % num_philosophers

RightNeighbour(p) == (p + 1) % num_philosophers

\* count_forks without the check of the second holder.
count_forks_in_first_only(st, fork_num) ==
    IF st[fork_num] = "EATING" THEN 1 ELSE 0

\* count_forks evaluated on a given state vector.
count_forks_in(st, fork_num) ==
    LET left_phil == fork_num
        right_phil == (fork_num - 1) % num_philosophers
    IN  (IF st[left_phil] = "EATING" THEN 1 ELSE 0)
        + (IF st[right_phil] = "EATING" THEN 1 ELSE 0)

count_forks(fork_num) == count_forks_in(state, fork_num)

\* print_fork_status: one count per fork, fork r at position r + 1.
print_fork_status(st) ==
    [r \in 1 .. num_philosophers |-> count_forks_in(st, r - 1)]

\* can_eat without the check that the philosopher is HUNGRY.
can_eat_any_phase(p) ==
    /\ state[left_fork(p)] # "EATING"
    /\ state[right_fork(p)] # "EATING"

\* can_eat without the check of the right fork.
can_eat_left_only(p) ==
    /\ state[p] = "HUNGRY"
    /\ state[left_fork(p)] # "EATING"

\* The condition of the if in test().
can_eat(p) ==
    /\ state[p] = "HUNGRY"
    /\ state[left_fork(p)] # "EATING"
    /\ state[right_fork(p)] # "EATING"

\* notified with the notify() left out: no waiter is woken.
notified_none(p) == {}

\* The thread that condition[p].notify() wakes: the first waiter, if any.
notified(p) == IF waiters[p] = <<>> THEN {} ELSE {Head(waiters[p])}

\* test with the notify() outside the if: the first waiter is woken whether
\* or not the philosopher was made EATING.
test_always_notify(t, p, next) ==
    LET st1 == IF can_eat(p) THEN [state EXCEPT ![p] = "EATING"] ELSE state
        f1 == [forks EXCEPT ![left_fork(p)] = count_forks_in(st1, left_fork(p))]
        f2 == [f1 EXCEPT ![right_fork(p)] = count_forks_in(st1, right_fork(p))]
    IN  /\ state' = st1
        /\ forks' = IF can_eat(p) THEN f2 ELSE forks
        /\ waiters' = [waiters EXCEPT ![p] = IF @ = <<>> THEN <<>> ELSE Tail(@)]
        /\ pc' = [u \in DOMAIN pc |->
                     IF u = t THEN next
                     ELSE IF u \in notified(p) THEN "notified"
                     ELSE pc[u]]

\* test(p) executed by thread t, which then continues at next.
test(t, p, next) ==
    IF can_eat(p)
    THEN LET st1 == [state EXCEPT ![p] = "EATING"]
             f1 == [forks EXCEPT ![left_fork(p)] = count_forks_in(st1, left_fork(p))]
             f2 == [f1 EXCEPT ![right_fork(p)] = count_forks_in(st1, right_fork(p))]
         IN  /\ state' = st1
             /\ forks' = f2
             /\ waiters' = [waiters EXCEPT ![p] =
                               IF @ = <<>> THEN <<>> ELSE Tail(@)]
             /\ pc' = [u \in DOMAIN pc |->
                          IF u = t THEN next
                          ELSE IF u \in notified(p) THEN "notified"
                          ELSE pc[u]]
    ELSE /\ pc' = [pc EXCEPT ![t] = next]
         /\ UNCHANGED <<state, forks, waiters>>

\* Where a thread is when the call it made returns.
after_pickup(t) == IF t = Caller THEN "outside" ELSE "eat"

after_return(t) == IF t = Caller THEN "outside" ELSE "think"

\* No BankersAlgorithm object exists.
NoBanker ==
    /\ available = <<>>
    /\ max_need = <<>>
    /\ allocation = <<>>
    /\ need = <<>>
    /\ call = [op |-> "none"]

\* No DiningPhilosophers object exists.
NoMonitor ==
    /\ created = FALSE
    /\ num_philosophers = 0
    /\ state = <<>>
    /\ forks = <<>>
    /\ mutex = {}
    /\ waiters = <<>>
    /\ pc = (Caller :> "outside")
    /\ philosopher_num = (Caller :> 0)
    /\ printed = <<>>
    /\ misuse = 0

Init == NoBanker /\ NoMonitor

\* DiningPhilosophers(n) and the start of the n Philosopher threads.
Construct(n) ==
    /\ ~created
    /\ created' = TRUE
    /\ num_philosophers' = n
    /\ state' = [i \in 0 .. (n - 1) |-> "THINKING"]
    /\ forks' = [i \in 0 .. (n - 1) |-> 0]
    /\ waiters' = [i \in 0 .. (n - 1) |-> <<>>]
    /\ pc' = [t \in (0 .. (n - 1)) \cup {Caller} |->
                 IF t = Caller THEN "outside" ELSE "think"]
    /\ philosopher_num' = [t \in (0 .. (n - 1)) \cup {Caller} |->
                              IF t = Caller THEN 0 ELSE t]
    /\ UNCHANGED <<mutex, printed, misuse, banker_vars>>

\* Philosopher.run calls pickup_forks(t): self.mutex.acquire().
PickupAcquire(t) ==
    /\ created
    /\ t \in Philosophers
    /\ pc[t] = "think"
    /\ mutex = {}
    /\ mutex' = {t}
    /\ pc' = [pc EXCEPT ![t] = "pickup_hungry"]
    /\ UNCHANGED <<created, num_philosophers, state, forks, waiters,
                   philosopher_num, printed, misuse, banker_vars>>

\* self.state[philosopher_num] = 'HUNGRY'
PickupHungry(t) ==
    /\ t \in Threads
    /\ pc[t] = "pickup_hungry"
    /\ state' = [state EXCEPT ![philosopher_num[t]] = "HUNGRY"]
    /\ pc' = [pc EXCEPT ![t] = "pickup_test"]
    /\ UNCHANGED <<created, num_philosophers, forks, mutex, waiters,
                   philosopher_num, printed, misuse, banker_vars>>

\* self.test(philosopher_num)
PickupTest(t) ==
    /\ t \in Threads
    /\ pc[t] = "pickup_test"
    /\ test(t, philosopher_num[t], "pickup_loop")
    /\ UNCHANGED <<created, num_philosophers, mutex, philosopher_num,
                   printed, misuse, banker_vars>>

\* while self.state[philosopher_num] != 'EATING': the loop is entered and
\* condition.wait() releases the mutex and blocks the thread.
PickupWait(t) ==
    /\ t \in Threads
    /\ pc[t] = "pickup_loop"
    /\ state[philosopher_num[t]] # "EATING"
    /\ waiters' = [waiters EXCEPT ![philosopher_num[t]] = Append(@, t)]
    /\ mutex' = {}
    /\ pc' = [pc EXCEPT ![t] = "waiting"]
    /\ UNCHANGED <<created, num_philosophers, state, forks,
                   philosopher_num, printed, misuse, banker_vars>>

\* A notified waiter re-acquires the mutex inside wait() and evaluates the
\* loop condition again.
PickupWake(t) ==
    /\ t \in Threads
    /\ pc[t] = "notified"
    /\ mutex = {}
    /\ mutex' = {t}
    /\ pc' = [pc EXCEPT ![t] = "pickup_loop"]
    /\ UNCHANGED <<created, num_philosophers, state, forks, waiters,
                   philosopher_num, printed, misuse, banker_vars>>

\* PickupRelease without the self.mutex.release().
PickupRelease_keeps_mutex(t) ==
    /\ t \in Threads
    /\ pc[t] = "pickup_loop"
    /\ state[philosopher_num[t]] = "EATING"
    /\ pc' = [pc EXCEPT ![t] = after_pickup(t)]
    /\ UNCHANGED <<created, num_philosophers, state, forks, mutex, waiters,
                   philosopher_num, printed, misuse, banker_vars>>

\* The loop condition is false: self.mutex.release() and pickup_forks returns.
PickupRelease(t) ==
    /\ t \in Threads
    /\ pc[t] = "pickup_loop"
    /\ state[philosopher_num[t]] = "EATING"
    /\ mutex' = {}
    /\ pc' = [pc EXCEPT ![t] = after_pickup(t)]
    /\ UNCHANGED <<created, num_philosophers, state, forks, waiters,
                   philosopher_num, printed, misuse, banker_vars>>

\* Philosopher.run calls return_forks(t): self.mutex.acquire().
ReturnAcquire(t) ==
    /\ created
    /\ t \in Philosophers
    /\ pc[t] = "eat"
    /\ mutex = {}
    /\ mutex' = {t}
    /\ pc' = [pc EXCEPT ![t] = "return_thinking"]
    /\ UNCHANGED <<created, num_philosophers, state, forks, waiters,
                   philosopher_num, printed, misuse, banker_vars>>

\* self.state[philosopher_num] = 'THINKING', the two fork counts are stored
\* and print_fork_status() reports the count of every fork.
ReturnThinking(t) ==
    /\ t \in Threads
    /\ pc[t] = "return_thinking"
    /\ LET p == philosopher_num[t]
           st1 == [state EXCEPT ![p] = "THINKING"]
           f1 == [forks EXCEPT ![left_fork(p)] = count_forks_in(st1, left_fork(p))]
           f2 == [f1 EXCEPT ![right_fork(p)] = count_forks_in(st1, right_fork(p))]
       IN  /\ state' = st1
           /\ forks' = f2
           /\ printed' = print_fork_status(st1)
    /\ pc' = [pc EXCEPT ![t] = "return_test_left"]
    /\ UNCHANGED <<created, num_philosophers, mutex, waiters,
                   philosopher_num, misuse, banker_vars>>

\* self.test(left)
ReturnTestLeft(t) ==
    /\ t \in Threads
    /\ pc[t] = "return_test_left"
    /\ test(t, left_fork(philosopher_num[t]), "return_test_right")
    /\ UNCHANGED <<created, num_philosophers, mutex, philosopher_num,
                   printed, misuse, banker_vars>>

\* self.test(right)
ReturnTestRight(t) ==
    /\ t \in Threads
    /\ pc[t] = "return_test_right"
    /\ test(t, right_fork(philosopher_num[t]), "return_release")
    /\ UNCHANGED <<created, num_philosophers, mutex, philosopher_num,
                   printed, misuse, banker_vars>>

\* self.mutex.release() and return_forks returns.
ReturnRelease(t) ==
    /\ t \in Threads
    /\ pc[t] = "return_release"
    /\ mutex' = {}
    /\ pc' = [pc EXCEPT ![t] = after_return(t)]
    /\ UNCHANGED <<created, num_philosophers, state, forks, waiters,
                   philosopher_num, printed, misuse, banker_vars>>

\* A call of pickup_forks(p) for a philosopher p that is not THINKING, made
\* from outside the philosopher threads: self.mutex.acquire().
MisusePickup(p) ==
    /\ created
    /\ p \in Philosophers
    /\ pc[Caller] = "outside"
    /\ misuse < MaxMisuse
    /\ state[p] # "THINKING"
    /\ mutex = {}
    /\ mutex' = {Caller}
    /\ misuse' = misuse + 1
    /\ philosopher_num' = [philosopher_num EXCEPT ![Caller] = p]
    /\ pc' = [pc EXCEPT ![Caller] = "pickup_hungry"]
    /\ UNCHANGED <<created, num_philosophers, state, forks, waiters, printed,
                   banker_vars>>

\* A call of return_forks(p) for a philosopher p that is not EATING, made
\* from outside the philosopher threads: self.mutex.acquire().
MisuseReturn(p) ==
    /\ created
    /\ p \in Philosophers
    /\ pc[Caller] = "outside"
    /\ misuse < MaxMisuse
    /\ state[p] # "EATING"
    /\ mutex = {}
    /\ mutex' = {Caller}
    /\ misuse' = misuse + 1
    /\ philosopher_num' = [philosopher_num EXCEPT ![Caller] = p]
    /\ pc' = [pc EXCEPT ![Caller] = "return_thinking"]
    /\ UNCHANGED <<created, num_philosophers, state, forks, waiters, printed,
                   banker_vars>>

\* One step of thread t inside or at the entry of a monitor operation.
ThreadStep(t) ==
    \/ PickupAcquire(t)
    \/ PickupHungry(t)
    \/ PickupTest(t)
    \/ PickupWait(t)
    \/ PickupWake(t)
    \/ PickupRelease(t)
    \/ ReturnAcquire(t)
    \/ ReturnThinking(t)
    \/ ReturnTestLeft(t)
    \/ ReturnTestRight(t)
    \/ ReturnRelease(t)

Next ==
    \/ \E n \in 0 .. MaxPhilosophers : Construct(n)
    \/ \E t \in Philosophers : PickupAcquire(t)
    \/ \E t \in Threads : PickupHungry(t)
    \/ \E t \in Threads : PickupTest(t)
    \/ \E t \in Threads : PickupWait(t)
    \/ \E t \in Threads : PickupWake(t)
    \/ \E t \in Threads : PickupRelease(t)
    \/ \E t \in Philosophers : ReturnAcquire(t)
    \/ \E t \in Threads : ReturnThinking(t)
    \/ \E t \in Threads : ReturnTestLeft(t)
    \/ \E t \in Threads : ReturnTestRight(t)
    \/ \E t \in Threads : ReturnRelease(t)

\* The simulation of main(): the philosopher threads alone.
Spec == Init /\ [][Next]_vars

\* The simulation together with out-of-sequence calls of the two operations.
NextMisuse ==
    \/ Next
    \/ \E p \in Philosophers : MisusePickup(p)
    \/ \E p \in Philosophers : MisuseReturn(p)

SpecMisuse == Init /\ [][NextMisuse]_vars

\* Scheduling of the threads: a thread that can take a step eventually takes
\* one (think and eat times are finite, a free mutex is eventually taken).
Fairness ==
    /\ WF_vars(\E n \in 0 .. MaxPhilosophers : Construct(n))
    /\ \A t \in 0 .. (MaxPhilosophers - 1) : WF_vars(ThreadStep(t))

FairSpec == Spec /\ Fairness

(***************************************************************************)
(* Properties                                                              *)
(***************************************************************************)

\* Philosopher p is blocked in pickup_forks: HUNGRY and waiting on condition[p].
Blocked(p) == state[p] = "HUNGRY" /\ pc[p] = "waiting"

\* The step is thread t executing the statement at program counter from and
\* moving on to the statement at to.
Moves(t, from, to) == pc[t] = from /\ pc'[t] = to

\* C1: mutual exclusion. With at least two philosophers, no philosopher and
\* its ring neighbour are EATING at the same time, and no fork is counted as
\* held by more than one philosopher.
C1_MutualExclusion ==
    (created /\ num_philosophers >= 2) =>
        /\ \A i \in Philosophers :
              ~(state[i] = "EATING" /\ state[RightNeighbour(i)] = "EATING")
        /\ \A r \in Philosophers : count_forks(r) <= 1

\* C2: grant check. Whenever a step makes philosopher i EATING, neither ring
\* neighbour of i is EATING in that step.
C2_GrantChecksBothNeighbours ==
    [][\A i \in Philosophers :
          (num_philosophers >= 2 /\ state[i] # "EATING" /\ state'[i] = "EATING")
          => /\ state'[LeftNeighbour(i)] # "EATING"
             /\ state'[RightNeighbour(i)] # "EATING"]_vars

\* C3: deadlock freedom. With at least two philosophers they are never all
\* blocked in pickup_forks at once, and under fair scheduling a call of
\* pickup_forks returns again and again.
C3_DeadlockFreedom ==
    /\ []((created /\ num_philosophers >= 2) =>
            \E i \in Philosophers : ~Blocked(i))
    /\ (<>(created /\ num_philosophers >= 2)) =>
            []<><<\E t \in Philosophers : PickupRelease(t)>>_vars

\* C3 witness: a ring of at least three where every philosopher but one is
\* blocked in pickup_forks.
C3_AllButOneBlocked ==
    /\ created
    /\ num_philosophers >= 3
    /\ Cardinality({i \in Philosophers : Blocked(i)}) = num_philosophers - 1

\* C4: release re-evaluates both neighbours. When return_forks(i) completes,
\* no ring neighbour of i is HUNGRY while both of that neighbour's own ring
\* neighbours are not EATING.
C4_ReleaseGrantsBothNeighbours ==
    [][\A t \in Philosophers :
          (num_philosophers >= 2 /\ Moves(t, "return_release", "think"))
          => \A nb \in {LeftNeighbour(t), RightNeighbour(t)} :
                ~(/\ state'[nb] = "HUNGRY"
                  /\ state'[LeftNeighbour(nb)] # "EATING"
                  /\ state'[RightNeighbour(nb)] # "EATING")]_vars

\* C5: grant cascade with three philosophers. While philosopher 0 is EATING
\* a pickup_forks by philosopher 1 or 2 blocks, and a return_forks(0) that
\* finds 1 and 2 both blocked leaves exactly one of them EATING.
C5_GrantCascade ==
    [][(created /\ num_philosophers = 3) =>
          /\ \A j \in {1, 2} :
                (state[0] = "EATING" /\ pc[j] = "pickup_loop"
                 /\ pc'[j] # "pickup_loop")
                => pc'[j] = "waiting"
          /\ (Blocked(1) /\ Blocked(2) /\ Moves(0, "return_release", "think"))
                => /\ state'[1] = "EATING" \/ state'[2] = "EATING"
                   /\ ~(state'[1] = "EATING" /\ state'[2] = "EATING")]_vars

\* C6: re-entry. The step of return_forks(i) that sets philosopher i THINKING
\* reports a count of 0 for fork i and for fork (i+1) mod N, and philosopher
\* i is THINKING when return_forks(i) returns.
C6_ReleaseReportsZero ==
    [][\A t \in Philosophers :
          /\ Moves(t, "return_thinking", "return_test_left")
                => /\ printed'[left_fork(t) + 1] = 0
                   /\ printed'[right_fork(t) + 1] = 0
          /\ Moves(t, "return_release", "think") => state'[t] = "THINKING"]_vars

\* C10: phase state machine. Every phase is THINKING, HUNGRY or EATING, and a
\* phase changes only from THINKING to HUNGRY (at the entry of the
\* philosopher's own pickup_forks), from HUNGRY to EATING (in a test) or from
\* EATING to THINKING (in the philosopher's own return_forks).
C10_PhaseStateMachine ==
    /\ [](\A i \in Philosophers : state[i] \in {"THINKING", "HUNGRY", "EATING"})
    /\ [][\A i \in Philosophers :
            state'[i] # state[i] =>
               \/ /\ state[i] = "THINKING" /\ state'[i] = "HUNGRY"
                  /\ Moves(i, "pickup_hungry", "pickup_test")
               \/ /\ state[i] = "HUNGRY" /\ state'[i] = "EATING"
                  /\ \E t \in Philosophers :
                        \/ Moves(t, "pickup_test", "pickup_loop") /\ t = i
                        \/ Moves(t, "return_test_left", "return_test_right")
                        \/ Moves(t, "return_test_right", "return_release")
               \/ /\ state[i] = "EATING" /\ state'[i] = "THINKING"
                  /\ Moves(i, "return_thinking", "return_test_left")]_vars

\* C10 witness: after a return_forks has reported the fork counts, one
\* philosopher is EATING, one is HUNGRY and one is THINKING.
C10_AllPhasesSeen ==
    /\ created
    /\ printed # <<>>
    /\ \E i, j, k \in Philosophers :
          state[i] = "EATING" /\ state[j] = "HUNGRY" /\ state[k] = "THINKING"

\* The outside caller takes a step of the call it is executing.
CallerSteps(at) == pc[Caller] \in at /\ pc'[Caller] # pc[Caller]

\* C7: misuse of release. A return_forks(p) called while philosopher p is
\* not EATING changes no phase.
C7_MisusedReturnChangesNothing ==
    [][CallerSteps({"return_thinking", "return_test_left",
                    "return_test_right", "return_release"})
          => state' = state]_vars

\* C8: misuse of acquire. A pickup_forks(p) called while philosopher p is not
\* THINKING writes no phase.
C8_MisusedPickupChangesNothing ==
    [][CallerSteps({"pickup_hungry", "pickup_test", "pickup_loop"})
          => state' = state]_vars

\* C9: construction validation. No monitor is created for fewer than two
\* philosophers, and a monitor created for five has every phase THINKING.
C9_ConstructionValidated ==
    [][(~created /\ created') =>
          /\ num_philosophers' >= 2
          /\ \A i \in 0 .. (num_philosophers' - 1) : state'[i] = "THINKING"]_vars

\* The statements of pickup_forks and of return_forks that run between
\* self.mutex.acquire() and self.mutex.release() or condition.wait().
PickupStatements == {"pickup_hungry", "pickup_test", "pickup_loop"}

ReturnStatements == {"return_thinking", "return_test_left",
                     "return_test_right", "return_release"}

\* Thread t executes a statement of the given set in this step.
Executes(t, statements) == pc[t] \in statements /\ pc'[t] # pc[t]

\* C11: a blocked philosopher is released only by a grant. A philosopher
\* leaves condition.wait() only in a step of another philosopher's
\* return_forks, holding the mutex, that makes it EATING and notifies it; it
\* then re-acquires the mutex, and pickup_forks returns only while it is EATING.
C11_ReleasedOnlyByGrant ==
    [][\A i \in Philosophers :
          /\ (pc[i] = "waiting" /\ pc'[i] # "waiting") =>
                /\ pc'[i] = "notified"
                /\ state[i] = "HUNGRY" /\ state'[i] = "EATING"
                /\ \E t \in Philosophers \ {i} :
                      /\ mutex = {t}
                      /\ Executes(t, {"return_test_left", "return_test_right"})
          /\ (pc[i] = "notified" /\ pc'[i] # "notified") =>
                pc'[i] = "pickup_loop" /\ mutex' = {i}
          /\ (pc[i] \in PickupStatements /\ pc'[i] = "eat") =>
                state[i] = "EATING" /\ state'[i] = "EATING"]_vars

\* C11 witness: a philosopher that was blocked has been granted and notified
\* while another one is still blocked.
C11_BlockedThenNotified ==
    /\ created
    /\ \E i, j \in Philosophers :
          pc[i] = "notified" /\ state[i] = "EATING" /\ Blocked(j)

\* C12: lock discipline. At most one thread holds the mutex; a thread is at
\* a statement that reads or writes a phase exactly when it holds the mutex,
\* so a thinking, eating, waiting or notified thread does not hold it; and
\* once the monitor is constructed a phase changes only in a step of the
\* thread that holds the mutex.
C12_LockDiscipline ==
    /\ [](/\ Cardinality(mutex) <= 1
          /\ \A t \in Threads :
                (pc[t] \in PickupStatements \cup ReturnStatements)
                   <=> (t \in mutex))
    /\ [][(created /\ state' # state) =>
             \E t \in Threads :
                /\ mutex = {t}
                /\ Executes(t, PickupStatements \cup ReturnStatements)]_vars

\* C12 witness: one philosopher holds the mutex inside return_forks while
\* another is eating, another is blocked in wait() and another is thinking.
C12_OneHolderOthersOutside ==
    /\ created
    /\ \E t, e, w, k \in Philosophers :
          /\ mutex = {t} /\ pc[t] \in ReturnStatements
          /\ pc[e] = "eat" /\ pc[w] = "waiting" /\ pc[k] = "think"

C14_RightNeighbourChecked ==
    [][\A i \in Philosophers :
          (state[i] # "EATING" /\ state'[i] = "EATING")
             => state[RightNeighbour(i)] # "EATING"]_vars

\* C14 witness: a philosopher has just been made EATING by its own
\* pickup_forks while its left neighbour is EATING and its right one is not.
C14_GrantedBesideLeftEater ==
    /\ created
    /\ num_philosophers >= 3
    /\ \E i \in Philosophers :
          /\ pc[i] = "pickup_loop" /\ state[i] = "EATING"
          /\ state[LeftNeighbour(i)] = "EATING"
          /\ state[RightNeighbour(i)] # "EATING"

\* The number of EATING philosophers among r and (r-1) mod N.
HolderCount(r) ==
    (IF state[r] = "EATING" THEN 1 ELSE 0)
    + (IF state[LeftNeighbour(r)] = "EATING" THEN 1 ELSE 0)

NumProcesses == 3

NumResources == 2

\* Largest entry of the maximum matrix, of the available vector and of a
\* request vector given to the program.
MaxNeed == 1

MaxAvailable == 1

MaxRequest == 1

Processes == 0 .. (NumProcesses - 1)

Resources == 0 .. (NumResources - 1)

\* _calculate_need: Need[i][j] = Max[i][j] - Allocation[i][j].
calculate_need(mx, al) ==
    [i \in Processes |-> [j \in Resources |-> mx[i][j] - al[i][j]]]

\* can_allocate with >= in place of >: a process whose need equals the work
\* vector in some resource is passed over.
can_allocate_strict(nd, work, i) ==
    \A j \in Resources : ~(nd[i][j] >= work[j])

\* The inner loop of is_safe over j: Need[i] <= Work.
can_allocate(nd, work, i) ==
    \A j \in Resources : ~(nd[i][j] > work[j])

\* The least element of a non-empty set of process numbers: the first i the
\* for loop of is_safe reaches.
first_process(S) == CHOOSE i \in S : \A k \in S : i <= k

\* The while loop of is_safe: finish is the set of i with finish[i] = True.
RECURSIVE safe_loop(_, _, _, _, _)
safe_loop(al, nd, work, finish, safe_sequence) ==
    IF ~(Len(safe_sequence) < NumProcesses)
    THEN [safe |-> TRUE, sequence |-> safe_sequence]
    ELSE LET found == {i \in Processes \ finish : can_allocate(nd, work, i)}
         IN  IF found = {}
             THEN [safe |-> FALSE, sequence |-> <<>>]
             ELSE LET i == first_process(found)
                  IN  safe_loop(al, nd,
                                [j \in Resources |-> work[j] + al[i][j]],
                                finish \cup {i},
                                Append(safe_sequence, i))

\* is_safe() on a given available vector, allocation matrix and need matrix.
is_safe_of(av, al, nd) == safe_loop(al, nd, av, {}, <<>>)

is_safe == is_safe_of(available, allocation, need)

\* Step 3 of request_resources without the update of the need matrix.
pretend_need_forgotten(process_id, request) == need

\* Step 3 of request_resources: the tentative available, allocation and need.
pretend_available(request) ==
    [j \in Resources |-> available[j] - request[j]]

pretend_allocation(process_id, request) ==
    [allocation EXCEPT ![process_id] =
        [j \in Resources |-> allocation[process_id][j] + request[j]]]

pretend_need(process_id, request) ==
    [need EXCEPT ![process_id] =
        [j \in Resources |-> need[process_id][j] - request[j]]]

\* Steps 1 and 2 of request_resources: the two early returns.
exceeds_need(process_id, request) ==
    \E j \in Resources : request[j] > need[process_id][j]

exceeds_available(request) ==
    \E j \in Resources : request[j] > available[j]

\* The inputs of the constructor: vectors and matrices of small numbers with
\* nothing allocated beyond the declared maximum.
BankerInit ==
    /\ NoMonitor
    /\ available \in [Resources -> 0 .. MaxAvailable]
    /\ max_need \in [Processes -> [Resources -> 0 .. MaxNeed]]
    /\ allocation \in [Processes -> [Resources -> 0 .. MaxNeed]]
    /\ \A i \in Processes : \A j \in Resources :
          allocation[i][j] <= max_need[i][j]
    /\ need = calculate_need(max_need, allocation)
    /\ call = [op |-> "init"]

\* A call of is_safe(): work is a copy of available, nothing is written.
CallIsSafe ==
    /\ call' = [op |-> "is_safe", safe |-> is_safe.safe,
                sequence |-> is_safe.sequence]
    /\ UNCHANGED <<available, max_need, allocation, need, dining_vars>>

\* request_resources that keeps the tentative allocation without step 4.
request_resources_unchecked(process_id, request) ==
    /\ call' = [op |-> "request_resources", process_id |-> process_id,
                request |-> request,
                granted |-> ~exceeds_need(process_id, request)
                            /\ ~exceeds_available(request)]
    /\ IF exceeds_need(process_id, request) \/ exceeds_available(request)
       THEN UNCHANGED <<available, allocation, need>>
       ELSE /\ available' = pretend_available(request)
            /\ allocation' = pretend_allocation(process_id, request)
            /\ need' = pretend_need(process_id, request)
    /\ UNCHANGED <<max_need, dining_vars>>

\* request_resources that returns False on an unsafe state without restoring
\* the saved state.
request_resources_no_rollback(process_id, request) ==
    LET early == exceeds_need(process_id, request) \/ exceeds_available(request)
        av == pretend_available(request)
        al == pretend_allocation(process_id, request)
        nd == pretend_need(process_id, request)
    IN  /\ call' = [op |-> "request_resources", process_id |-> process_id,
                    request |-> request,
                    granted |-> ~early /\ is_safe_of(av, al, nd).safe]
        /\ IF early
           THEN UNCHANGED <<available, allocation, need>>
           ELSE available' = av /\ allocation' = al /\ need' = nd
        /\ UNCHANGED <<max_need, dining_vars>>

\* A call of request_resources(process_id, request).
request_resources(process_id, request) ==
    IF exceeds_need(process_id, request)
    THEN /\ call' = [op |-> "request_resources", process_id |-> process_id,
                     request |-> request, granted |-> FALSE]
         /\ UNCHANGED <<available, max_need, allocation, need, dining_vars>>
    ELSE IF exceeds_available(request)
    THEN /\ call' = [op |-> "request_resources", process_id |-> process_id,
                     request |-> request, granted |-> FALSE]
         /\ UNCHANGED <<available, max_need, allocation, need, dining_vars>>
    ELSE LET old_available == available
             old_allocation == allocation
             old_need == need
             av == pretend_available(request)
             al == pretend_allocation(process_id, request)
             nd == pretend_need(process_id, request)
         IN  IF is_safe_of(av, al, nd).safe
             THEN /\ available' = av
                  /\ allocation' = al
                  /\ need' = nd
                  /\ call' = [op |-> "request_resources",
                              process_id |-> process_id,
                              request |-> request, granted |-> TRUE]
                  /\ UNCHANGED <<max_need, dining_vars>>
             ELSE /\ available' = old_available
                  /\ allocation' = old_allocation
                  /\ need' = old_need
                  /\ call' = [op |-> "request_resources",
                              process_id |-> process_id,
                              request |-> request, granted |-> FALSE]
                  /\ UNCHANGED <<max_need, dining_vars>>

BankerNext ==
    \/ CallIsSafe
    \/ \E process_id \in Processes :
          \E request \in [Resources -> 0 .. MaxRequest] :
             request_resources(process_id, request)

BankerSpec == BankerInit /\ [][BankerNext]_vars

\* The instances of resource j held by the first k processes of seq.
RECURSIVE AllocatedBefore(_, _, _)
AllocatedBefore(seq, k, j) ==
    IF k = 0 THEN 0
    ELSE allocation[seq[k]][j] + AllocatedBefore(seq, k - 1, j)

\* seq is a safe sequence: each process of seq needs no more than what is
\* available plus what the processes before it in seq hold.
SafeOrder(seq) ==
    \A k \in 1 .. Len(seq) : \A j \in Resources :
       need[seq[k]][j] <= available[j] + AllocatedBefore(seq, k - 1, j)

\* The sequences that contain every process exactly once.
Orders ==
    {seq \in [1 .. NumProcesses -> Processes] :
        \A a, b \in 1 .. NumProcesses : seq[a] = seq[b] => a = b}

\* The instances of resource j that exist: the free ones and the held ones.
RECURSIVE HeldUpTo(_, _, _)
HeldUpTo(al, i, j) ==
    IF i < 0 THEN 0 ELSE al[i][j] + HeldUpTo(al, i - 1, j)

Total(av, al, j) == av[j] + HeldUpTo(al, NumProcesses - 1, j)

\* The step is a call of request_resources that returns the given value.
Returns(value) ==
    /\ call'.op = "request_resources"
    /\ call'.granted = value
    /\ call' # call \/ <<available, allocation, need>>' # <<available, allocation, need>>

\* C16: banker safety check. is_safe() returns True with a sequence exactly
\* when a safe sequence exists; the sequence it returns then contains every
\* process exactly once and is a safe sequence; otherwise it returns False
\* with the empty sequence; and a call of is_safe() reports this result and
\* leaves available, allocation and need unchanged.
C16_IsSafeCorrect ==
    /\ [](call.op # "none" =>
            /\ is_safe.safe <=> (\E seq \in Orders : SafeOrder(seq))
            /\ is_safe.safe => (is_safe.sequence \in Orders
                                /\ SafeOrder(is_safe.sequence))
            /\ ~is_safe.safe => is_safe.sequence = <<>>)
    /\ [][(call'.op = "is_safe" /\ call' # call) =>
             /\ call'.safe = is_safe.safe
             /\ call'.sequence = is_safe.sequence
             /\ <<available, allocation, need>>' = <<available, allocation, need>>]_vars

\* C16 witness: is_safe() has returned a safe sequence in which process 0 is
\* not the first, in a state where an unfinished process had to be skipped.
C16_SafeOutOfOrder ==
    /\ call.op = "is_safe"
    /\ call.safe
    /\ call.sequence[1] # 0
    /\ call.sequence[NumProcesses] # 0

\* C17: the banker keeps the system safe. A call of request_resources in a
\* safe state leaves a safe state, and a request is granted only if it does
\* not exceed need[p], does not exceed available, and the state with it
\* allocated, which is the state after the call, is safe.
C17_StaysSafe ==
    [][(call'.op = "request_resources") =>
          /\ is_safe.safe => is_safe_of(available', allocation', need').safe
          /\ Returns(TRUE) =>
                /\ ~exceeds_need(call'.process_id, call'.request)
                /\ ~exceeds_available(call'.request)
                /\ available' = pretend_available(call'.request)
                /\ allocation' = pretend_allocation(call'.process_id, call'.request)
                /\ need' = pretend_need(call'.process_id, call'.request)
                /\ is_safe_of(available', allocation', need').safe]_vars

\* C17 witness: a non-empty request has been granted and took the last free
\* instance of some resource.
C17_GrantedLastInstance ==
    /\ call.op = "request_resources"
    /\ call.granted
    /\ \E j \in Resources : call.request[j] > 0 /\ available[j] = 0
    /\ is_safe.safe

\* C18: a denial leaves the state unchanged. Whenever request_resources
\* returns False, available, allocation and need are as before the call.
C18_DenialChangesNothing ==
    [][Returns(FALSE) =>
          /\ available' = available
          /\ allocation' = allocation
          /\ need' = need]_vars

\* C18 witness: a request within the need of the process and within the
\* available instances has been denied because the state with it allocated
\* is not safe, in a state that is safe.
C18_DeniedAsUnsafe ==
    /\ call.op = "request_resources"
    /\ ~call.granted
    /\ ~exceeds_need(call.process_id, call.request)
    /\ ~exceeds_available(call.request)
    /\ is_safe.safe

\* C19: banker bookkeeping. After construction and after every call,
\* need[i][j] = max_need[i][j] - allocation[i][j], and for every resource j
\* available[j] plus the instances of j allocated does not change.
C19_Bookkeeping ==
    /\ [](call.op # "none" =>
            \A i \in Processes : \A j \in Resources :
               need[i][j] = max_need[i][j] - allocation[i][j])
    /\ [][call.op # "none" =>
             /\ max_need' = max_need
             /\ \A j \in Resources :
                   Total(available', allocation', j)
                      = Total(available, allocation, j)]_vars

\* C19 witness: a request that moved instances of both resources to a
\* process has been granted.
C19_GrantedBothResources ==
    /\ call.op = "request_resources"
    /\ call.granted
    /\ \A j \in Resources : call.request[j] > 0

====
